---- MODULE Spec2Model ----
(***************************************************************************)
(* Model of openMVG/multiview/solver_essential_three_point.cpp:            *)
(*   - ThreePointsRelativePose (orthographic, closed form, 2 candidates)   *)
(*   - essential::kernel::ThreePointUprightRelativePoseSolver::Solve       *)
(*                                                                         *)
(* A C++ double is modelled as a triple <<s, n, d>>: sign s \in {1,-1},    *)
(* magnitude n/d with n, d naturals in lowest terms.  d = 0 encodes the    *)
(* IEEE-754 special values: <<s,1,0>> is +-infinity and <<1,0,0>> is NaN;  *)
(* <<s,0,1>> is the signed zero.  The arithmetic is the IEEE arithmetic of *)
(* the special values and the exact arithmetic of the rationals (rounding  *)
(* is not modelled).  sqrt is modelled on the arguments whose square root  *)
(* is rational; the samples of the model are drawn from those.             *)
(***************************************************************************)
EXTENDS Integers, Sequences, FiniteSets, TLC

(* ------------------------------ bounds --------------------------------- *)
\* number of solver calls in one behaviour
MaxCalls == 2
\* largest image coordinate of the second-image points of the wide samples
MaxCoord == 2

(* ------------------------- double arithmetic --------------------------- *)
NaN == <<1, 0, 0>>
Inf(s) == <<s, 1, 0>>
Zero(s) == <<s, 0, 1>>

IsNaN(x) == x[3] = 0 /\ x[2] = 0
IsInf(x) == x[3] = 0 /\ x[2] # 0
IsFinite(x) == x[3] # 0
IsZero(x) == x[3] # 0 /\ x[2] = 0
\* x < 0 (false for NaN and for both zeros)
IsNegative(x) == ~IsNaN(x) /\ x[1] = -1 /\ x[2] # 0

\* the doubles of the model
Dbl == {-1, 1} \X Nat \X Nat

GCD[a \in Nat, b \in Nat] == IF b = 0 THEN a ELSE GCD[b, a % b]

\* the double of sign s and magnitude n/d, in lowest terms
Norm[s \in {-1, 1}, n \in Nat, d \in Nat] ==
  IF d = 0 THEN (IF n = 0 THEN NaN ELSE Inf(s))
  ELSE IF n = 0 THEN Zero(s)
  ELSE LET g == GCD[n, d] IN <<s, n \div g, d \div g>>

\* an integer literal or integer-valued coordinate as a double
D(i) == IF i < 0 THEN <<-1, -i, 1>> ELSE <<1, i, 1>>

\* unary minus
Neg[x \in Dbl] == IF IsNaN(x) THEN NaN ELSE <<-x[1], x[2], x[3]>>

\* x + y
Add[x \in Dbl, y \in Dbl] ==
  IF IsNaN(x) \/ IsNaN(y) THEN NaN
  ELSE IF IsInf(x) /\ IsInf(y) THEN (IF x[1] = y[1] THEN x ELSE NaN)
  ELSE IF IsInf(x) THEN x
  ELSE IF IsInf(y) THEN y
  ELSE LET num == x[1] * x[2] * y[3] + y[1] * y[2] * x[3]
       IN IF num = 0
            THEN Zero(IF x[1] = -1 /\ y[1] = -1 THEN -1 ELSE 1)
          ELSE IF num < 0 THEN Norm[-1, -num, x[3] * y[3]]
          ELSE Norm[1, num, x[3] * y[3]]

\* x - y
Sub[x \in Dbl, y \in Dbl] == Add[x, Neg[y]]

\* x * y
Mul[x \in Dbl, y \in Dbl] ==
  IF IsNaN(x) \/ IsNaN(y) THEN NaN
  ELSE IF (IsInf(x) /\ IsZero(y)) \/ (IsZero(x) /\ IsInf(y)) THEN NaN
  ELSE Norm[x[1] * y[1], x[2] * y[2], x[3] * y[3]]

\* x / y
Div[x \in Dbl, y \in Dbl] ==
  IF IsNaN(x) \/ IsNaN(y) THEN NaN
  ELSE IF (IsInf(x) /\ IsInf(y)) \/ (IsZero(x) /\ IsZero(y)) THEN NaN
  ELSE Norm[x[1] * y[1], x[2] * y[3], x[3] * y[2]]

\* floor of the square root of a natural
ISqrtUp[n \in Nat, s \in Nat] == IF (s + 1) * (s + 1) > n THEN s ELSE s + 1

ISqrt[n \in Nat] == IF n < 2 THEN n ELSE ISqrtUp[n, 2 * ISqrt[n \div 4]]

IsSquare(n) == ISqrt[n] * ISqrt[n] = n

\* sqrt(x): NaN for x < 0, -0 for -0, +inf for +inf
Sqrt[x \in Dbl] ==
  IF IsNaN(x) THEN NaN
  ELSE IF IsZero(x) THEN x
  ELSE IF x[1] = -1 THEN NaN
  ELSE IF IsInf(x) THEN x
  ELSE <<1, ISqrt[x[2]], ISqrt[x[3]]>>

\* The element of a singleton.  Only({e(v) : v \in {d}}) is e with v bound
\* to the value of d, as a const local of the code is bound to its value.
Only(S) == CHOOSE r \in S : TRUE

\* the arguments on which Sqrt above is the exact square root
SqrtExact(x) ==
  ~IsFinite(x) \/ IsZero(x) \/ x[1] = -1 \/ (IsSquare(x[2]) /\ IsSquare(x[3]))

(* ------------------------------ matrices ------------------------------- *)
\* M(r, c) with the 0-based indices of the code
At(M, r, c) == M[r + 1][c + 1]
\* column i (0-based) of a sample, given as a sequence of columns
Col(X, i) == X[i + 1]

X(v) == v[1]
Y(v) == v[2]
Z(v) == v[3]

\* difference of two 2-vectors
VSub(u, v) == <<Sub[X(u), X(v)], Sub[Y(u), Y(v)]>>

\* true of a matrix with an infinite or NaN entry
Invalid(M) == \E r \in 0..2, c \in 0..2 : ~IsFinite(At(M, r, c))

\* x = y as doubles: -0 = +0, NaN equals nothing
NumEq(x, y) ==
  /\ ~IsNaN(x)
  /\ ~IsNaN(y)
  /\ \/ x = y
     \/ IsZero(x) /\ IsZero(y)

\* x <= y for finite doubles
FinLeq(x, y) == x[1] * x[2] * y[3] <= y[1] * y[2] * x[3]

(* --------------------- ThreePointsRelativePose ------------------------- *)
\* lines 38-42
Edges(x1, x2) ==
  [xd1 |-> VSub(Col(x1, 1), Col(x1, 0)),
   yd1 |-> VSub(Col(x1, 2), Col(x1, 0)),
   xd2 |-> VSub(Col(x2, 1), Col(x2, 0)),
   yd2 |-> VSub(Col(x2, 2), Col(x2, 0))]

\* lines 44-49
Ratios(e) ==
  LET denom == Sub[Mul[X(e.xd1), Y(e.yd1)], Mul[Y(e.xd1), X(e.yd1)]]
  IN [denom |-> denom,
      aac |-> Div[Sub[Mul[Y(e.xd1), X(e.yd2)], Mul[X(e.xd2), Y(e.yd1)]], denom],
      aad |-> Div[Sub[Mul[Y(e.xd1), Y(e.yd2)], Mul[Y(e.xd2), Y(e.yd1)]], denom],
      bbc |-> Div[Sub[Mul[X(e.xd2), X(e.yd1)], Mul[X(e.xd1), X(e.yd2)]], denom],
      bbd |-> Div[Sub[Mul[Y(e.xd2), X(e.yd1)], Mul[X(e.xd1), Y(e.yd2)]], denom]]

\* lines 52-57 and 62
QuadraticInDSquared(r) ==
  LET aac_sq == Mul[r.aac, r.aac]
  IN [aac_sq |-> aac_sq,
      dd_2 |-> Add[Sub[Add[Neg[aac_sq], Mul[r.aad, r.aad]], Mul[r.bbc, r.bbc]],
                   Mul[r.bbd, r.bbd]],
      dd_1c |-> Add[Mul[Mul[D(2), r.aac], r.aad], Mul[Mul[D(2), r.bbc], r.bbd]],
      dd_0 |-> Sub[Add[aac_sq, Mul[r.bbc, r.bbc]], D(1)],
      tmp_csol |-> Add[Sub[Add[Neg[aac_sq], Mul[r.aad, r.aad]],
                           Mul[r.bbc, r.bbc]],
                       Mul[r.bbd, r.bbd]]]

\* lines 58-60
Quartic(q) ==
  [d4_4 |-> Add[Mul[q.dd_1c, q.dd_1c], Mul[q.dd_2, q.dd_2]],
   d4_2 |-> Add[Mul[Neg[q.dd_1c], q.dd_1c], Mul[Mul[D(2), q.dd_0], q.dd_2]],
   d4_0 |-> Mul[q.dd_0, q.dd_0]]

\* line 61; disc is the argument of the sqrt
Discriminant(f) ==
  LET disc == Sub[Mul[f.d4_2, f.d4_2], Mul[Mul[D(4), f.d4_4], f.d4_0]]
  IN [disc |-> disc, tmp |-> Sqrt[disc]]

\* the constants computed once per call (lines 38-62), as one record
Coefficients(x1, x2) ==
  Only({ Only({ Only({ Only({ Only({ r @@ q @@ f @@ t :
    t \in {Discriminant(f)} }) :
    f \in {Quartic(q)} }) :
    q \in {QuadraticInDSquared(r)} }) :
    r \in {Ratios(e)} }) :
    e \in {Edges(x1, x2)} })

\* the argument of the sqrt of line 66
dsolSquared(c, root) == Div[Div[Neg[root], c.d4_4], D(2)]

\* slip: a zero d4_4 is answered with dsol = 0
dsol_Guarded(c, root) ==
  IF IsZero(c.d4_4) THEN D(0) ELSE Sqrt[dsolSquared(c, root)]

dsol(c, root) == Sqrt[dsolSquared(c, root)]

\* the divisor of lines 67-68
csolDenominator(c, ds) ==
  Add[Mul[Mul[Mul[D(2), c.aac], c.aad], ds],
      Mul[Mul[Mul[D(2), c.bbc], c.bbd], ds]]

csol(c, ds) ==
  Div[Neg[Sub[Add[Add[Mul[Mul[c.tmp_csol, ds], ds], c.aac_sq],
                  Mul[c.bbc, c.bbc]], D(1)]],
      csolDenominator(c, ds)]

\* slip: the two coefficients exchanged
asol_Swapped(c, cs, ds) == Add[Mul[c.aad, cs], Mul[c.aac, ds]]

asol(c, cs, ds) == Add[Mul[c.aac, cs], Mul[c.aad, ds]]

bsol(c, cs, ds) == Add[Mul[c.bbc, cs], Mul[c.bbd, ds]]

esol(x1, x2, as, bs, cs, ds) ==
  Sub[Sub[Sub[Mul[Neg[as], X(Col(x1, 0))], Mul[bs, Y(Col(x1, 0))]],
          Mul[cs, X(Col(x2, 0))]],
      Mul[ds, Y(Col(x2, 0))]]

\* the lambda of lines 64-77; x1, x2 and c are its captures
ComputeEssentialMatrix(x1, x2, c, root) ==
  Only({ Only({ Only({ Only({
    << <<D(0), D(0), as>>,
       <<D(0), D(0), bs>>,
       <<cs, ds, esol(x1, x2, as, bs, cs, ds)>> >> :
    bs \in {bsol(c, cs, ds)} }) :
    as \in {asol(c, cs, ds)} }) :
    cs \in {csol(c, ds)} }) :
    ds \in {dsol(c, root)} })

\* slip: the two roots in the other order
Roots_Swapped(c) == <<Sub[c.d4_2, c.tmp], Add[c.d4_2, c.tmp]>>

\* the two roots handed to the lambda, in the order of lines 79-80
Roots(c) == <<Add[c.d4_2, c.tmp], Sub[c.d4_2, c.tmp]>>

\* slip: a double root gives one candidate only
ThreePointsRelativePose_DistinctRoots(x1, x2, E) ==
  Only({ IF IsZero(c.tmp)
           THEN Append(E, ComputeEssentialMatrix(x1, x2, c, Roots(c)[1]))
         ELSE Append(Append(E, ComputeEssentialMatrix(x1, x2, c, Roots(c)[1])),
                     ComputeEssentialMatrix(x1, x2, c, Roots(c)[2])) :
         c \in {Coefficients(x1, x2)} })

\* slip: a degenerate or complex-root sample is screened out
ThreePointsRelativePose_Screened(x1, x2, E) ==
  Only({ IF IsZero(c.denom) \/ IsNaN(c.tmp) THEN E
         ELSE Append(Append(E, ComputeEssentialMatrix(x1, x2, c, Roots(c)[1])),
                     ComputeEssentialMatrix(x1, x2, c, Roots(c)[2])) :
         c \in {Coefficients(x1, x2)} })

\* F with M appended unless F holds M already
AppendNew(F, M) == IF \E i \in 1..Len(F) : F[i] = M THEN F ELSE Append(F, M)

\* slip: a candidate already in the list is not appended again
ThreePointsRelativePose_Dedupe(x1, x2, E) ==
  Only({ AppendNew(AppendNew(E, ComputeEssentialMatrix(x1, x2, c, Roots(c)[1])),
                   ComputeEssentialMatrix(x1, x2, c, Roots(c)[2])) :
         c \in {Coefficients(x1, x2)} })

\* the list E after the call
ThreePointsRelativePose(x1, x2, E) ==
  Only({ Append(Append(E, ComputeEssentialMatrix(x1, x2, c, Roots(c)[1])),
                ComputeEssentialMatrix(x1, x2, c, Roots(c)[2])) :
         c \in {Coefficients(x1, x2)} })

\* the samples on which every sqrt of the call is exact in the model
OrthoExact(x1, x2) ==
  \A c \in {Coefficients(x1, x2)} :
    /\ SqrtExact(c.disc)
    /\ SqrtExact(dsolSquared(c, Roots(c)[1]))
    /\ SqrtExact(dsolSquared(c, Roots(c)[2]))

\* asol*x1.x + bsol*x1.y + csol*x2.x + dsol*x2.y + esol for the candidate M
\* and the pair (p1, p2) of a first-image and a second-image point
OrthoResidual(M, p1, p2) ==
  Add[Add[Add[Add[Mul[At(M, 0, 2), X(p1)], Mul[At(M, 1, 2), Y(p1)]],
              Mul[At(M, 2, 0), X(p2)]],
          Mul[At(M, 2, 1), Y(p2)]],
      At(M, 2, 2)]

(* ------------- ThreePointUprightRelativePoseSolver::Solve -------------- *)
\* slip: the sign of the second entry lost
ARow_SignSlip(a, b) ==
  <<Mul[X(a), Y(b)], Mul[Z(a), Y(b)],
    Mul[Neg[X(b)], Y(a)], Mul[Neg[Z(b)], Y(a)]>>

\* one row of the 3x4 matrix A (lines 99-101)
ARow(a, b) ==
  <<Mul[X(a), Y(b)], Mul[Neg[Z(a)], Y(b)],
    Mul[Neg[X(b)], Y(a)], Mul[Neg[Z(b)], Y(a)]>>

\* the matrix A as the sequence of its rows (lines 94-102)
ActionMatrix(bearing_a, bearing_b) ==
  <<ARow(Col(bearing_a, 0), Col(bearing_b, 0)),
    ARow(Col(bearing_a, 1), Col(bearing_b, 1)),
    ARow(Col(bearing_a, 2), Col(bearing_b, 2))>>

Dot4(u, v) ==
  Add[Add[Add[Mul[u[1], v[1]], Mul[u[2], v[2]]], Mul[u[3], v[3]]],
      Mul[u[4], v[4]]]

Det3(u, v, w) ==
  Add[Sub[Mul[u[1], Sub[Mul[v[2], w[3]], Mul[v[3], w[2]]]],
          Mul[u[2], Sub[Mul[v[1], w[3]], Mul[v[3], w[1]]]]],
      Mul[u[3], Sub[Mul[v[1], w[2]], Mul[v[2], w[1]]]]]

\* columns p, q, r of a row
Pick(u, p, q, r) == <<u[p], u[q], u[r]>>

\* the generalised cross product of three 4-vectors: orthogonal to all three
Cross4(u, v, w) ==
  <<Det3(Pick(u, 2, 3, 4), Pick(v, 2, 3, 4), Pick(w, 2, 3, 4)),
    Neg[Det3(Pick(u, 1, 3, 4), Pick(v, 1, 3, 4), Pick(w, 1, 3, 4))],
    Det3(Pick(u, 1, 2, 4), Pick(v, 1, 2, 4), Pick(w, 1, 2, 4)),
    Neg[Det3(Pick(u, 1, 2, 3), Pick(v, 1, 2, 3), Pick(w, 1, 2, 3))]>>

UnitVec(k) == [j \in 1..4 |-> IF j = k THEN D(1) ELSE D(0)]

IsZeroVec(n) == \A j \in 1..4 : IsZero(n[j])

\* A * n = 0
InNullspace(A, n) == \A i \in 1..3 : IsZero(Dot4(A[i], n))

\* nullspace vectors of a rank-deficient A
DeficientCandidates(A) ==
  {Cross4(A[i], A[j], UnitVec(k)) : i \in 1..2, j \in 2..3, k \in 1..4}
    \cup {Cross4(A[i], UnitVec(k), UnitVec(l)) :
            i \in 1..3, k \in 1..3, l \in 2..4}
    \cup {UnitVec(1)}

\* The eigenvector of A^T A for its smallest eigenvalue (lines 104-105).
\* A has 3 rows, so A^T A is singular and that eigenvalue is 0: the
\* eigenvector spans the nullspace of A when A has rank 3, and is one fixed
\* vector of the nullspace, not further specified, when the rank is lower.
\* The vector is kept up to its scale (the solver returns it with norm 1).
Nullspace(A) ==
  Only({ IF ~IsZeroVec(n) THEN n
         ELSE CHOOSE m \in DeficientCandidates(A) :
                ~IsZeroVec(m) /\ InNullspace(A, m) :
         n \in {Cross4(A[1], A[2], A[3])} })

\* slip: E(0,1) and E(1,0) exchanged
EssentialFromNullspace_Transposed(n) ==
  << <<D(0), Neg[n[1]], D(0)>>,
     <<n[3], D(0), n[2]>>,
     <<D(0), n[4], D(0)>> >>

\* lines 107-111, n indexed from 0 in the code
EssentialFromNullspace(n) ==
  << <<D(0), n[3], D(0)>>,
     <<Neg[n[1]], D(0), n[2]>>,
     <<D(0), n[4], D(0)>> >>

\* slip: no candidate for a rank-deficient sample
Solve_SkipDeficient(bearing_a, bearing_b, pvec_E) ==
  Only({ IF IsZeroVec(Cross4(A[1], A[2], A[3])) THEN pvec_E
         ELSE Only({ Append(pvec_E, EssentialFromNullspace(nullspace)) :
                     nullspace \in {Nullspace(A)} }) :
         A \in {ActionMatrix(bearing_a, bearing_b)} })

\* slip: the candidate inserted at the front
Solve_PushFront(bearing_a, bearing_b, pvec_E) ==
  Only({ Only({ <<EssentialFromNullspace(nullspace)>> \o pvec_E :
                nullspace \in {Nullspace(A)} }) :
         A \in {ActionMatrix(bearing_a, bearing_b)} })

\* the list pvec_E after the call
Solve(bearing_a, bearing_b, pvec_E) ==
  Only({ Only({ Append(pvec_E, EssentialFromNullspace(nullspace)) :
                nullspace \in {Nullspace(A)} }) :
         A \in {ActionMatrix(bearing_a, bearing_b)} })

\* b^T * M * a
EpipolarResidual(b, M, a) ==
  LET Ma == [r \in 1..3 |->
               Add[Add[Mul[M[r][1], a[1]], Mul[M[r][2], a[2]]],
                   Mul[M[r][3], a[3]]]]
  IN Add[Add[Mul[b[1], Ma[1]], Mul[b[2], Ma[2]]], Mul[b[3], Ma[3]]]

(* ------------------------------ samples -------------------------------- *)
\* a sample of 3 columns with integer coordinates, as a matrix of doubles
Mat(cols) == [i \in 1..3 |-> [j \in 1..Len(cols[i]) |-> D(cols[i][j])]]

NoSample == [kind |-> "none", first |-> <<>>, second |-> <<>>]

OrthoSample(c1, c2) ==
  [kind |-> "ortho", first |-> Mat(c1), second |-> Mat(c2)]

UprightSample(ca, cb) ==
  [kind |-> "upright", first |-> Mat(ca), second |-> Mat(cb)]

Triangle == << <<0, 0>>, <<0, 1>>, <<1, 0>> >>
ShiftedTriangle == << <<1, 1>>, <<2, 1>>, <<1, 2>> >>
Collinear == << <<0, 0>>, <<1, 1>>, <<2, 2>> >>
Coincident == << <<1, 1>>, <<1, 1>>, <<1, 1>> >>

\* first-image / second-image point triples of the call sequences
OrthoPairs ==
  { <<Triangle, << <<0, 0>>, <<0, 0>>, <<2, 1>> >> >>,
    <<Triangle, Triangle>>,
    <<Triangle, << <<0, 0>>, <<0, 2>>, <<2, 1>> >> >>,
    <<Triangle, << <<0, 0>>, <<0, 0>>, <<1, 1>> >> >>,
    <<Triangle, << <<0, 0>>, <<0, 0>>, <<0, 1>> >> >>,
    <<Triangle, << <<1, 0>>, <<0, 2>>, <<2, 2>> >> >>,
    <<ShiftedTriangle, << <<1, 2>>, <<3, 3>>, <<1, 2>> >> >>,
    <<Collinear, Triangle>>,
    <<Coincident, Triangle>> }

\* frame-A / frame-B bearing triples of the call sequences
UprightPairs ==
  { << << <<1, 0, 1>>, <<0, 1, 1>>, <<1, 1, 1>> >>,
       << <<1, 1, 0>>, <<0, 1, 1>>, <<-1, 1, 1>> >> >>,
    << << <<1, 1, 1>>, <<-1, 1, 1>>, <<0, -1, 1>> >>,
       << <<1, 1, 1>>, <<-1, 1, 1>>, <<0, -1, 1>> >> >>,
    << << <<1, 1, 1>>, <<1, -1, 1>>, <<-1, 1, 1>> >>,
       << <<0, 1, 1>>, <<1, 1, 0>>, <<1, -1, 1>> >> >>,
    << << <<1, 1, 1>>, <<1, 1, 1>>, <<0, 1, 1>> >>,
       << <<1, 1, 0>>, <<1, 1, 0>>, <<1, 0, 1>> >> >>,
    << << <<1, 0, 0>>, <<0, 0, 1>>, <<1, 0, 1>> >>,
       << <<0, 1, 0>>, <<1, 1, 1>>, <<0, 1, 1>> >> >>,
    << << <<1, 1, 1>>, <<1, 1, 1>>, <<1, 1, 1>> >>,
       << <<0, 1, 1>>, <<0, 1, 1>>, <<0, 1, 1>> >> >> }

\* the samples the sampling loop draws from in the call sequences
Samples ==
  {OrthoSample(p[1], p[2]) : p \in OrthoPairs}
    \cup {UprightSample(p[1], p[2]) : p \in UprightPairs}

Points == (0..MaxCoord) \X (0..MaxCoord)
BearingVecs ==
  { <<1, 0, 1>>, <<0, 1, 1>>, <<1, 1, 1>>, <<-1, 1, 0>>, <<1, -1, 1>>,
    <<0, 0, 1>> }

\* the samples of the single-sample behaviours: every second-image triple
\* over Points against 3 first-image triples, every frame-B triple over
\* BearingVecs against 3 frame-A triples
WideSamples ==
  {OrthoSample(c1, <<p0, p1, p2>>) :
     c1 \in {Triangle, ShiftedTriangle, Collinear},
     p0 \in Points, p1 \in Points, p2 \in Points}
    \cup {UprightSample(ca, <<b0, b1, b2>>) :
            ca \in { << <<1, 0, 1>>, <<0, 1, 1>>, <<1, 1, 1>> >>,
                     << <<1, 1, 1>>, <<1, -1, 1>>, <<-1, 1, 1>> >>,
                     << <<1, 1, 0>>, <<1, 1, 0>>, <<0, 1, 1>> >> },
            b0 \in BearingVecs, b1 \in BearingVecs, b2 \in BearingVecs}

\* the samples the model can solve exactly
Solvable(s) ==
  s.kind = "ortho" => OrthoExact(s.first, s.second)

SolvableSamples == {s \in Samples : Solvable(s)}

SolvableWideSamples == {s \in WideSamples : Solvable(s)}

(* --------------------------- state machine ----------------------------- *)
NumLists == 2
ListIds == 1..NumLists

VARIABLES
  lists,   \* lists[l]: the caller's candidate list l (std::vector<Mat3>)
  sample,  \* the sample the caller holds (the solvers' const inputs)
  last,    \* the last solver call: solver, list, input, list before the call
  hist,    \* the calls made so far: solver, input, candidates appended
  ncalls   \* number of solver calls made

vars == <<lists, sample, last, hist, ncalls>>

NoCall == [op |-> "none", lst |-> 1, in |-> NoSample, before |-> <<>>]

Init ==
  /\ lists = [l \in ListIds |-> <<>>]
  /\ sample = NoSample
  /\ last = NoCall
  /\ hist = {}
  /\ ncalls = 0

\* what a call appended to a list that held E before
Appended(E, Eafter) == SubSeq(Eafter, Len(E) + 1, Len(Eafter))

\* the sampling loop picks the next sample
Draw ==
  /\ ncalls < MaxCalls
  /\ \E s \in SolvableSamples : sample' = s
  /\ UNCHANGED <<lists, last, hist, ncalls>>

\* ThreePointsRelativePose(sample.first, sample.second, &lists[l])
CallOrtho(l) ==
  /\ ncalls < MaxCalls
  /\ sample.kind = "ortho"
  /\ lists' = [lists EXCEPT ![l] =
                 ThreePointsRelativePose(sample.first, sample.second, @)]
  /\ hist' = hist \cup {[op |-> "ortho", in |-> sample,
                         out |-> Appended(lists[l], lists'[l])]}
  /\ last' = [op |-> "ortho", lst |-> l, in |-> sample, before |-> lists[l]]
  /\ ncalls' = ncalls + 1
  /\ UNCHANGED sample

\* Solve(sample.first, sample.second, &lists[l])
CallUpright(l) ==
  /\ ncalls < MaxCalls
  /\ sample.kind = "upright"
  /\ lists' = [lists EXCEPT ![l] = Solve(sample.first, sample.second, @)]
  /\ hist' = hist \cup {[op |-> "upright", in |-> sample,
                         out |-> Appended(lists[l], lists'[l])]}
  /\ last' = [op |-> "upright", lst |-> l, in |-> sample, before |-> lists[l]]
  /\ ncalls' = ncalls + 1
  /\ UNCHANGED sample

Next ==
  \/ Draw
  \/ \E l \in ListIds : CallOrtho(l)
  \/ \E l \in ListIds : CallUpright(l)

Spec == Init /\ [][Next]_vars

\* one sample, solved repeatedly
InitWide ==
  /\ lists = [l \in ListIds |-> <<>>]
  /\ sample \in SolvableWideSamples
  /\ last = NoCall
  /\ hist = {}
  /\ ncalls = 0

NextWide ==
  \/ \E l \in ListIds : CallOrtho(l)
  \/ \E l \in ListIds : CallUpright(l)

SpecWide == InitWide /\ [][NextWide]_vars

(* ----------------------------- properties ------------------------------ *)
\* the candidates the last call appended
LastOut == Appended(last.before, lists[last.lst])
\* the constants of the last call, when it was an orthographic call
LastCoef == Coefficients(last.in.first, last.in.second)
\* the matrix A of the last call, when it was an upright call
LastA == ActionMatrix(last.in.first, last.in.second)

NonZero(x) == IsFinite(x) /\ ~IsZero(x)
\* x >= 0
NonNegative(x) == ~IsNaN(x) /\ ~IsNegative(x)

\* C1: every upright call leaves the list exactly 1 longer than before,
\* rank-deficient samples included.
C1_UprightAppendsOne ==
  last.op = "upright" => Len(lists[last.lst]) = Len(last.before) + 1

\* an upright call on a rank-deficient sample, on a list that held candidates
C1_Witness ==
  /\ last.op = "upright"
  /\ IsZeroVec(Cross4(LastA[1], LastA[2], LastA[3]))
  /\ Len(last.before) > 0
  /\ Len(lists[last.lst]) = Len(last.before) + 1

\* C2: every orthographic call with denom # 0 and a non-negative
\* discriminant leaves the list exactly 2 longer than before.
C2_OrthoAppendsTwo ==
  (last.op = "ortho" /\ NonZero(LastCoef.denom) /\ NonNegative(LastCoef.disc))
    => Len(lists[last.lst]) = Len(last.before) + 2

\* such a call whose two roots coincide (tmp = 0)
C2_Witness ==
  /\ last.op = "ortho"
  /\ NonZero(LastCoef.denom)
  /\ IsZero(LastCoef.tmp)
  /\ Len(lists[last.lst]) = Len(last.before) + 2

\* C3: the matrix of an upright call is +0 at (0,0), (0,2), (1,1), (2,0),
\* (2,2) and holds n2, -n0, n1, n3 at (0,1), (1,0), (1,2), (2,1).
C3_UprightPattern ==
  last.op = "upright" =>
    /\ Len(LastOut) = 1
    /\ LET M == LastOut[1]
           n == Nullspace(LastA)
       IN /\ \A rc \in {<<0, 0>>, <<0, 2>>, <<1, 1>>, <<2, 0>>, <<2, 2>>} :
               At(M, rc[1], rc[2]) = Zero(1)
          /\ At(M, 0, 1) = n[3]
          /\ At(M, 1, 0) = Neg[n[1]]
          /\ At(M, 1, 2) = n[2]
          /\ At(M, 2, 1) = n[4]

\* an upright call whose vector n has 4 nonzero components, n0 # n2
C3_Witness ==
  /\ last.op = "upright"
  /\ Len(LastOut) = 1
  /\ \A j \in 1..4 : NonZero(Nullspace(LastA)[j])
  /\ ~NumEq(Nullspace(LastA)[1], Neg[Nullspace(LastA)[3]])
  /\ At(LastOut[1], 0, 1) = Nullspace(LastA)[3]

\* the vectors the identity of C4 is evaluated on
TestVectors ==
  {UnitVec(k) : k \in 1..4}
    \cup {<<D(1), D(-1), D(2), D(-2)>>, <<D(2), D(1), D(-1), D(3)>>}

\* C4: for the matrix E of an upright call and each of the 3 pairs (a, b),
\* b^T E a = -(A.row(i) . n); it is 0 as n is in the nullspace of A; and the
\* row of A and the mapping of a vector m into E agree for every m.
C4_UprightEpipolar ==
  last.op = "upright" =>
    /\ Len(LastOut) = 1
    /\ \A i \in 0..2 :
         LET a == Col(last.in.first, i)
             b == Col(last.in.second, i)
             n == Nullspace(LastA)
         IN /\ NumEq(EpipolarResidual(b, LastOut[1], a),
                     Neg[Dot4(LastA[i + 1], n)])
            /\ InNullspace(LastA, n) => IsZero(EpipolarResidual(b, LastOut[1], a))
            /\ \A m \in TestVectors :
                 NumEq(EpipolarResidual(b, EssentialFromNullspace(m), a),
                       Neg[Dot4(ARow(a, b), m)])

\* an upright call on a rank-3 sample: the residuals are 0 and E is not 0
C4_Witness ==
  /\ last.op = "upright"
  /\ Len(LastOut) = 1
  /\ ~IsZeroVec(Cross4(LastA[1], LastA[2], LastA[3]))
  /\ \A j \in 1..4 : NonZero(Nullspace(LastA)[j])
  /\ \A i \in 0..2 :
       IsZero(EpipolarResidual(Col(last.in.second, i), LastOut[1],
                               Col(last.in.first, i)))

\* the residual of candidate k of the last call is 0 on the 3 pairs
OrthoResidualsZero(k) ==
  \A i \in 0..2 :
    IsZero(OrthoResidual(LastOut[k], Col(last.in.first, i),
                         Col(last.in.second, i)))

\* C5 as stated: with denom # 0, both candidates of an orthographic call
\* have residual 0 on the 3 pairs.
C5_Original ==
  (last.op = "ortho" /\ NonZero(LastCoef.denom)) =>
    /\ Len(LastOut) = 2
    /\ \A k \in 1..2 : OrthoResidualsZero(k)

\* C5 amended: with denom # 0, every candidate of an orthographic call whose
\* entries are all finite has residual 0 on the 3 pairs.
C5_OrthoEpipolar ==
  (last.op = "ortho" /\ NonZero(LastCoef.denom)) =>
    /\ Len(LastOut) = 2
    /\ \A k \in 1..2 : ~Invalid(LastOut[k]) => OrthoResidualsZero(k)

\* an orthographic call, first points off the origin, two different finite
\* candidates, one with nonzero asol, csol, dsol and esol
C5_Witness ==
  /\ last.op = "ortho"
  /\ NonZero(LastCoef.denom)
  /\ Len(LastOut) = 2
  /\ LastOut[1] # LastOut[2]
  /\ NonZero(X(Col(last.in.first, 0)))
  /\ \A k \in 1..2 : ~Invalid(LastOut[k]) /\ OrthoResidualsZero(k)
  /\ \E k \in 1..2 :
       /\ NonZero(At(LastOut[k], 0, 2))
       /\ NonZero(At(LastOut[k], 2, 0))
       /\ NonZero(At(LastOut[k], 2, 1))
       /\ NonZero(At(LastOut[k], 2, 2))

\* a call of hist on a collinear first image or with a negative discriminant
Degenerate(h) ==
  LET c == Coefficients(h.in.first, h.in.second)
  IN h.op = "ortho" /\ (IsZero(c.denom) \/ IsNegative(c.disc))

\* C6: an orthographic call with denom = 0 or a negative discriminant still
\* appends its 2 candidates, and each has an infinite or NaN entry.
C6_DegenerateAsData ==
  \A h \in hist :
    Degenerate(h) =>
      /\ Len(h.out) = 2
      /\ Invalid(h.out[1])
      /\ Invalid(h.out[2])

\* both cases happened: a call with denom = 0 and a call with a negative
\* discriminant
C6_Witness ==
  /\ \E h \in hist :
       /\ h.op = "ortho"
       /\ IsZero(Coefficients(h.in.first, h.in.second).denom)
       /\ Len(h.out) = 2
  /\ \E h \in hist :
       /\ h.op = "ortho"
       /\ IsNegative(Coefficients(h.in.first, h.in.second).disc)
       /\ Len(h.out) = 2

\* C7: a step keeps every list as a prefix of its new value, changes no list
\* but the one of the call, and a call leaves the sample as it was.
C7_AppendOnly ==
  [][/\ \A l \in ListIds :
          /\ Len(lists[l]) <= Len(lists'[l])
          /\ SubSeq(lists'[l], 1, Len(lists[l])) = lists[l]
     /\ ncalls' # ncalls =>
          /\ sample' = sample
          /\ last'.in = sample
          /\ \A l \in ListIds \ {last'.lst} : lists'[l] = lists[l]]_vars

\* an upright call on a list that held the 2 candidates of an orthographic
\* call, which are still in front
C7_Witness ==
  /\ last.op = "upright"
  /\ Len(last.before) = 2
  /\ Len(lists[last.lst]) = 3
  /\ SubSeq(lists[last.lst], 1, 2) = last.before

QuadraticAt(c, y) ==
  Add[Add[Mul[Mul[c.d4_4, y], y], Mul[c.d4_2, y]], c.d4_0]

\* C9: the first candidate of an orthographic call comes from the root
\* d4_2 + tmp and the second from d4_2 - tmp: the entry dsol at (2,1) is
\* sqrt(-root / d4_4 / 2), and where that is a number it is non-negative, its
\* square is a root of the quadratic, and the first dsol is the smaller.
C9_RootOrder ==
  last.op = "ortho" =>
    /\ Len(LastOut) = 2
    /\ LET c == LastCoef
           y1 == Div[Div[Neg[Add[c.d4_2, c.tmp]], c.d4_4], D(2)]
           y2 == Div[Div[Neg[Sub[c.d4_2, c.tmp]], c.d4_4], D(2)]
           d1 == At(LastOut[1], 2, 1)
           d2 == At(LastOut[2], 2, 1)
       IN /\ c.tmp = Sqrt[c.disc]
          /\ d1 = Sqrt[y1]
          /\ d2 = Sqrt[y2]
          /\ IsFinite(d1) =>
               /\ NonNegative(d1)
               /\ NumEq(Mul[d1, d1], y1)
               /\ IsZero(QuadraticAt(c, Mul[d1, d1]))
          /\ IsFinite(d2) =>
               /\ NonNegative(d2)
               /\ NumEq(Mul[d2, d2], y2)
               /\ IsZero(QuadraticAt(c, Mul[d2, d2]))
          /\ (IsFinite(d1) /\ IsFinite(d2)) => FinLeq(d1, d2)

\* an orthographic call with two different finite dsol
C9_Witness ==
  /\ last.op = "ortho"
  /\ Len(LastOut) = 2
  /\ NonZero(LastCoef.tmp)
  /\ IsFinite(At(LastOut[1], 2, 1))
  /\ IsFinite(At(LastOut[2], 2, 1))
  /\ At(LastOut[1], 2, 1) # At(LastOut[2], 2, 1)

\* equal second-image and first-image points give aac = bbd = -1,
\* aad = bbc = 0
SameImageCoefficients ==
  (last.in.first = last.in.second /\ NonZero(LastCoef.denom)) =>
    /\ LastCoef.aac = D(-1)
    /\ LastCoef.bbd = D(-1)
    /\ IsZero(LastCoef.aad)
    /\ IsZero(LastCoef.bbc)

\* C10 as stated: with denom # 0, dd_1c = 0 and dd_2 = 0 give d4_4 = 0, a
\* zero csol denominator and two invalid candidates; and the csol
\* denominator is zero whenever dd_1c = 0 or dsol = 0.
C10_Original ==
  (last.op = "ortho" /\ Len(LastOut) = 2 /\ NonZero(LastCoef.denom)) =>
    /\ SameImageCoefficients
    /\ (IsZero(LastCoef.dd_1c) /\ IsZero(LastCoef.dd_2)) =>
         /\ IsZero(LastCoef.d4_4)
         /\ NonNegative(LastCoef.disc)
         /\ \A k \in 1..2 :
              /\ IsZero(csolDenominator(LastCoef, At(LastOut[k], 2, 1)))
              /\ Invalid(LastOut[k])
    /\ \A k \in 1..2 :
         (IsZero(LastCoef.dd_1c) \/ IsZero(At(LastOut[k], 2, 1))) =>
           IsZero(csolDenominator(LastCoef, At(LastOut[k], 2, 1)))

\* C10 amended: with denom # 0, dd_1c = 0 and dd_2 = 0 give d4_4 = 0 and a
\* discriminant 0, dsol = 0/0 is NaN and so is the csol denominator, and both
\* candidates are invalid; the csol denominator is zero, and the candidate
\* invalid, whenever dsol is finite and dd_1c = 0 or dsol = 0.
C10_InvalidDespiteRealRoots ==
  (last.op = "ortho" /\ Len(LastOut) = 2 /\ NonZero(LastCoef.denom)) =>
    /\ SameImageCoefficients
    /\ (IsZero(LastCoef.dd_1c) /\ IsZero(LastCoef.dd_2)) =>
         /\ IsZero(LastCoef.d4_4)
         /\ NonNegative(LastCoef.disc)
         /\ \A k \in 1..2 :
              /\ IsNaN(At(LastOut[k], 2, 1))
              /\ IsNaN(csolDenominator(LastCoef, At(LastOut[k], 2, 1)))
              /\ Invalid(LastOut[k])
    /\ \A k \in 1..2 :
         (/\ IsFinite(At(LastOut[k], 2, 1))
          /\ IsZero(LastCoef.dd_1c) \/ IsZero(At(LastOut[k], 2, 1))) =>
           /\ IsZero(csolDenominator(LastCoef, At(LastOut[k], 2, 1)))
           /\ Invalid(LastOut[k])

\* the second image equal to a non-collinear first image: real discriminant,
\* two invalid candidates
C10_Witness ==
  /\ last.op = "ortho"
  /\ Len(LastOut) = 2
  /\ last.in.first = last.in.second
  /\ NonZero(LastCoef.denom)
  /\ NonNegative(LastCoef.disc)
  /\ IsZero(LastCoef.d4_4)
  /\ Invalid(LastOut[1])
  /\ Invalid(LastOut[2])

====
